---------------------------- MODULE Spec2Model ----------------------------
(***************************************************************************)
(* Gateway process supervisor and durable sync engine of moltworker.       *)
(*                                                                         *)
(*   SpecSync     syncToR2 (src/src/gateway/sync.ts) called by the cron    *)
(*                handler (src/src/index.ts) and by the storage sync       *)
(*                trigger (src/unnamed/part_000), over one sandbox.        *)
(*   SpecGateway  the catch-all proxy route (src/src/index.ts) and the     *)
(*                restart route (src/unnamed/part_000) over the one        *)
(*                backend process of the sandbox.                          *)
(*   SpecMarker   syncToR2 over a durable mirror that holds any marker.     *)
(*   SpecStatus   the health route (src/unnamed/part_000).                 *)
(*   SpecDevices  the device routes (src/unnamed/part_000).                *)
(*   SpecAuth     the access middleware (src/unnamed/part_000).            *)
(*   SpecWaitFair waitForProcess of sync.ts and of the routes.             *)
(*   SpecStorage  the storage status route (src/unnamed/part_000).         *)
(***************************************************************************)
EXTENDS Integers, Sequences, FiniteSets, TLC

(***************************************************************************)
(* Bounds                                                                  *)
(***************************************************************************)
\* the wall clock of the sandbox runs from 1 to MaxClock (seconds)
MaxClock == 2
\* proxied requests in flight at once
NumProxy == 1
\* backend processes the sandbox starts in one run
MaxLaunch == 2
\* pieces of text the device list command prints
MaxOut == 3
\* pieces of text a device approve command prints
MaxWords == 2
\* devices that wait for approval
MaxDevices == 2
\* the longest timeout handed to waitForProcess, in tenths of a second
MaxTimeout == 12

(***************************************************************************)
(* Text.  A text is a record; kind "empty" is the empty string, kind "iso" *)
(* is the output of `date -Iseconds` for second t, and nl says whether the *)
(* text still ends in the newline the command printed.                    *)
(***************************************************************************)
Empty == [kind |-> "empty", t |-> 0, nl |-> FALSE]

\* `date -Iseconds`: YYYY-MM-DDThh:mm:ss+zz:zz and a newline
DateISeconds(t) == [kind |-> "iso", t |-> t, nl |-> TRUE]

\* text of white space only
Blank == [kind |-> "blank", t |-> 0, nl |-> TRUE]

\* text that does not begin with a date, and a date with other text behind
Junk     == [kind |-> "junk", t |-> 0, nl |-> TRUE]
DateJunk == [kind |-> "datejunk", t |-> 0, nl |-> TRUE]

\* String.prototype.trim
Trim(s) == IF s.kind = "blank" THEN Empty ELSE [s EXCEPT !.nl = FALSE]

\* JavaScript truthiness of a string
Truthy(s) == s.kind # "empty"

\* the match of any text
MatchesDatePrefix_Any(s) == TRUE

\* lastSync.match(/^\d{4}-\d{2}-\d{2}/)
MatchesDatePrefix(s) == s.kind \in {"iso", "datejunk"}

Texts == {Empty} \cup {DateISeconds(t) : t \in 1..MaxClock}
                 \cup {Trim(DateISeconds(t)) : t \in 1..MaxClock}

\* lastSync before the marker has been read
Unread == [kind |-> "unread", t |-> 0, nl |-> FALSE]

\* a file that does not exist
NoFile == [kind |-> "nofile", t |-> 0, nl |-> FALSE]

\* stdout of `cat file`: the content, nothing when the file does not exist
Cat(file) == IF file.kind = "nofile" THEN Empty ELSE file

(***************************************************************************)
(* Error messages, as the sequences of their words, and String.includes.   *)
(***************************************************************************)
ErrNotConfigured == <<"R2", "storage", "is", "not", "configured">>
ErrMountFailed   == <<"Failed", "to", "mount", "R2", "storage">>
ErrSyncAborted   == <<"Sync", "aborted:", "source", "missing", "clawdbot.json">>
ErrVerifyFailed  == <<"Failed", "to", "verify", "source", "files">>
ErrSyncFailed    == <<"Sync", "failed">>
ErrSyncError     == <<"Sync", "error">>
NoError          == << >>

\* s.includes(needle), on words
Includes(s, needle) ==
  \E k \in 0..(Len(s) - Len(needle)) :
     \A j \in 1..Len(needle) : s[k + j] = needle[j]


(***************************************************************************)
(* State                                                                   *)
(***************************************************************************)
VARIABLES
  creds,      \* env: which of the three R2 credentials are set
  mounted,    \* the bucket is mounted at R2_MOUNT_PATH
  srcFile,    \* /root/.clawdbot/clawdbot.json exists
  durable,    \* content of the durable mirror: "none", "good" or "bad"
  marker,     \* the file .last-sync of the durable mirror
  scratch,    \* the file R2_MOUNT_PATH/.last-sync while nothing is mounted
  now,        \* the sandbox's clock, in seconds
  spc,        \* position of each syncToR2 invocation
  mirror,     \* the process running syncCmd of each invocation
  result,     \* SyncResult of each invocation
  resp,       \* HTTP response of the storage sync trigger
  steps,      \* the operations each invocation has performed, in order
  srcSeen,    \* the critical file since the invocation began: "absent",
              \* "present" throughout, or "mixed"
  cleanSince, \* the second the invocation began at, while nothing has
              \* disturbed it since; 0 once something has
  lastRead    \* lastSync of each invocation: what it read of the marker

syncVars == <<creds, mounted, srcFile, durable, marker, scratch, now, spc,
              mirror, result, resp, steps, srcSeen, cleanSince,
              lastRead>>

VARIABLES
  gwAlive,    \* ids of the backend processes in the process table
  gwPort,     \* id of the process answering the service port, 0 if none
  nextPid,    \* id the next started backend process gets
  ens,        \* each caller's ensureClawdbotGateway call
  pstate,     \* each proxied request: "idle", "ensuring" or its answer
  rpc,        \* position of the restart request
  found,      \* existingProcess of the restart request (0: none)
  killThrew,  \* existingProcess.kill() threw
  rresp,      \* answer of the restart request
  rsteps      \* what the restart request has done, in order

gwVars == <<gwAlive, gwPort, nextPid, ens, pstate, rpc, found, killThrew,
            rresp, rsteps>>

VARIABLES
  hpc,        \* position of the health request
  hproc,      \* the process its lookup returned (0: none, -1: it threw)
  hresp       \* answer of the health request

statVars == <<hpc, hproc, hresp>>

VARIABLES
  pendingDev, \* ids of the devices the backend holds as pending
  dpc,        \* position of the device request
  dkind,      \* its route: "list", "approve" or "all"
  dreq,       \* requestId of an approve request
  dout,       \* stdout of the command the request read last
  derr,       \* stderr of that command
  dexit,      \* exit code of that command, -1 while it has none
  dpending,   \* pending of the bulk approve
  dresults,   \* results of the bulk approve
  dresp,      \* answer of the device request
  dstarted    \* ids of the approve commands passed to startProcess, in order

devVars == <<pendingDev, dpc, dkind, dreq, dout, derr, dexit, dpending,
             dresults, dresp, dstarted>>

VARIABLES
  aenv,       \* env as the access middleware reads it
  aopt,       \* options the middleware was created with
  areq,       \* the request before the middleware: its tokens and its JWT
  apc,        \* position of the middleware
  auser,      \* accessUser of the request context
  aran,       \* how often the downstream handler has been invoked
  ares        \* answer of the middleware: "next" for the handler's own

authVars == <<aenv, aopt, areq, apc, auser, aran, ares>>

VARIABLES
  wkind,      \* which waitForProcess runs: that of sync.ts or of the routes
  wtimeout,   \* timeoutMs, in tenths of a second
  wmax,       \* maxAttempts
  wattempts,  \* attempts
  wsleeps,    \* poll sleeps the call has completed
  wpc,        \* position of the call: "idle", "sleep" or "returned"
  wstatus     \* proc.status of the process waited for

waitVars == <<wkind, wtimeout, wmax, wattempts, wsleeps, wpc, wstatus>>

VARIABLES
  stpc,       \* position of GET /storage: "idle", "mount", "read", "responded"
  stmount,    \* what its mountR2Storage returned: "none", "ok" or "failed"
  ststeps,    \* the calls it has made on the sandbox, in order
  ststdout,   \* logs.stdout of its cat process, Unread before it has any
  stresp      \* its answer

storVars == <<stpc, stmount, ststeps, ststdout, stresp>>

\* the state that neither syncToR2 nor ensureClawdbotGateway touches
restVars == <<statVars, devVars, authVars, waitVars, storVars>>

vars == <<syncVars, gwVars, restVars>>

\* the two callers of syncToR2: scheduled() and POST /storage/sync
Syncs == {"cron", "manual"}

NoProc   == [phase |-> "none", rc |-> -1, wrote |-> FALSE]
NoResult == [success |-> FALSE, lastSync |-> Empty, error |-> NoError,
             details |-> "unset"]
NoResp   == [status |-> 0, success |-> FALSE, lastSync |-> Empty,
             error |-> NoError]

Running(m) == m.phase \in {"rsync", "date"}

(***************************************************************************)
(* syncToR2: the pure parts                                                *)
(***************************************************************************)
\* the test without CF_ACCOUNT_ID
IsConfigured_NoAccount(env) == env.key /\ env.secret

\* sync.ts:41
IsConfigured(env) == env.key /\ env.secret /\ env.account

\* `test -f /root/.clawdbot/clawdbot.json && echo "ok"`
OkLine == [kind |-> "ok", t |-> 0, nl |-> TRUE]
TestAndEcho(present) == IF present THEN OkLine ELSE Empty

\* the test passing whatever the check printed
CheckSawOk_Always(stdout) == stdout.kind \in {"ok", "empty"}

\* sync.ts:57  checkLogs.stdout?.includes('ok')
CheckSawOk(stdout) == stdout.kind = "ok"

\* `rsync ... ; date -Iseconds > .last-sync`
SyncCmdRunsDate_Semicolon(rc) == rc \in {0, 1}

\* sync.ts:74  `rsync ... && date -Iseconds > .last-sync`: date runs iff
\* rsync exited 0
SyncCmdRunsDate(rc) == rc = 0

\* the test with the match negated
MarkerAccepted_Negated(lastSync) ==
  Truthy(lastSync) /\ ~MatchesDatePrefix(lastSync)

\* sync.ts:87
MarkerAccepted(lastSync) == Truthy(lastSync) /\ MatchesDatePrefix(lastSync)

\* a failure that names no error
Failure_NoError(err, det) == [success |-> FALSE, lastSync |-> Empty,
                              error |-> NoError, details |-> det]

Failure(err, det) == [success |-> FALSE, lastSync |-> Empty, error |-> err,
                      details |-> det]
Success(lastSync) == [success |-> TRUE, lastSync |-> lastSync,
                      error |-> NoError, details |-> "unset"]

\* the test looking for 'R2 storage'
SyncFailureStatus_R2(err) ==
  IF Includes(err, <<"R2", "storage">>) THEN 400 ELSE 500

\* part_000:272  result.error?.includes('not configured') ? 400 : 500
SyncFailureStatus(err) ==
  IF Includes(err, <<"not", "configured">>) THEN 400 ELSE 500

\* part_000:265-278
StorageSyncResponse(r) ==
  IF r.success
    THEN [status |-> 200, success |-> TRUE, lastSync |-> r.lastSync,
          error |-> NoError]
    ELSE [status |-> SyncFailureStatus(r.error), success |-> FALSE,
          lastSync |-> Empty, error |-> r.error]

\* the caller's use of the result: the trigger answers, scheduled() logs
CallerResponse(i, r) == IF i = "manual" THEN StorageSyncResponse(r) ELSE NoResp

(***************************************************************************)
(* syncToR2: the steps.  Every await of the function is a step boundary.   *)
(***************************************************************************)
Goto(i, p) ==
  /\ spc' = [spc EXCEPT ![i] = p]
  /\ UNCHANGED <<result, resp>>

\* `return {...}` of syncToR2, and what its caller does with the result
Finish(i, r) ==
  /\ spc' = [spc EXCEPT ![i] = "ret"]
  /\ result' = [result EXCEPT ![i] = r]
  /\ resp' = [resp EXCEPT ![i] = CallerResponse(i, r)]

Did(i, op) == steps' = [steps EXCEPT ![i] = Append(@, op)]

Disturbed(i, bad) ==
  cleanSince' = [cleanSince EXCEPT ![i] = IF bad THEN 0 ELSE @]

\* the file at R2_MOUNT_PATH/.last-sync that a command started now sees
MarkerSeen == IF mounted THEN marker ELSE scratch

\* sync.ts:39-43.  An invocation begins once the previous process of its
\* caller has ended.
SyncBegin(i) ==
  /\ spc[i] = "idle"
  /\ ~Running(mirror[i])
  /\ mirror' = [mirror EXCEPT ![i] = NoProc]
  /\ steps' = [steps EXCEPT ![i] = <<"configured">>]
  /\ srcSeen' = [srcSeen EXCEPT ![i] = IF srcFile THEN "present" ELSE "absent"]
  /\ lastRead' = [lastRead EXCEPT ![i] = Unread]
  /\ cleanSince' = [j \in Syncs |->
                      IF /\ j = i
                         /\ srcFile
                         /\ \A k \in Syncs \ {i} :
                               /\ spc[k] \in {"idle", "ret"}
                               /\ ~Running(mirror[k])
                        THEN now ELSE 0]
  /\ IF IsConfigured(creds)
       THEN Goto(i, "mount")
       ELSE Finish(i, Failure(ErrNotConfigured, "unset"))
  /\ UNCHANGED <<creds, mounted, srcFile, durable, marker, scratch, now,
                 gwVars, restVars>>

\* mountR2Storage (gateway/r2.ts, not among the sources): true when the
\* bucket is mounted already, else one mount attempt that succeeds or fails
MountOutcomes == IF mounted THEN {TRUE} ELSE BOOLEAN

\* sync.ts:45-49
SyncMount(i) ==
  /\ spc[i] = "mount"
  /\ \E ok \in MountOutcomes :
       /\ mounted' = ok
       /\ Disturbed(i, ~ok)
       /\ IF ok THEN Goto(i, "check")
                ELSE Finish(i, Failure(ErrMountFailed, "unset"))
  /\ Did(i, "mount")
  /\ UNCHANGED <<lastRead, creds, srcFile, durable, marker, scratch, now, mirror,
                 srcSeen,
                 gwVars, restVars>>

\* sync.ts:53-70.  startProcess throws, or the check process is started and
\* has or has not printed its line when the 5 s wait ends.
SyncCheck(i) ==
  /\ spc[i] = "check"
  /\ \E o \in {"throw", "timeout", "done"} :
       /\ Disturbed(i, o # "done")
       /\ IF o = "throw"
            THEN /\ Finish(i, Failure(ErrVerifyFailed, "message"))
                 /\ UNCHANGED steps
            ELSE /\ Did(i, "check")
                 /\ LET stdout == IF o = "done" THEN TestAndEcho(srcFile)
                                                ELSE Empty
                    IN IF CheckSawOk(stdout)
                         THEN Goto(i, "mirror")
                         ELSE Finish(i, Failure(ErrSyncAborted, "missing"))
  /\ UNCHANGED <<lastRead, creds, mounted, srcFile, durable, marker, scratch, now,
                 mirror, srcSeen,
                 gwVars, restVars>>

\* sync.ts:76-77.  startProcess(syncCmd) throws or starts the mirror process.
SyncStartMirror(i) ==
  /\ spc[i] = "mirror"
  /\ \E o \in {"throw", "started"} :
       /\ Disturbed(i, o = "throw")
       /\ IF o = "throw"
            THEN /\ Finish(i, Failure(ErrSyncError, "message"))
                 /\ UNCHANGED <<steps, mirror>>
            ELSE /\ Did(i, "mirror")
                 /\ mirror' = [mirror EXCEPT ![i] =
                                 [phase |-> "rsync", rc |-> -1, wrote |-> FALSE]]
                 /\ Goto(i, "wait")
  /\ UNCHANGED <<lastRead, creds, mounted, srcFile, durable, marker, scratch, now,
                 srcSeen,
                 gwVars, restVars>>

\* a process that ends after its invocation returned leaves nothing behind:
\* no one holds its handle
Ended(i, m) == IF spc[i] = "idle" THEN NoProc ELSE m

\* sync.ts:74, first command: rsync -r --no-times --delete from the source
\* directory to R2_MOUNT_PATH.  It exits 0 having made the target a copy of
\* the source, or non-zero having done that (copied) or nothing.  A copy
\* deletes what the source lacks, the marker among it.
MirrorRsync(i) ==
  /\ mirror[i].phase = "rsync"
  /\ \E rc \in {0, 1}, copied \in BOOLEAN :
       /\ rc = 0 => copied
       /\ IF copied /\ mounted
            THEN /\ durable' = IF srcFile THEN "good" ELSE "bad"
                 /\ marker' = NoFile
                 /\ UNCHANGED scratch
            ELSE IF copied
              THEN scratch' = NoFile /\ UNCHANGED <<durable, marker>>
              ELSE UNCHANGED <<durable, marker, scratch>>
       /\ mirror' = [mirror EXCEPT ![i] =
             IF SyncCmdRunsDate(rc)
               THEN [phase |-> "date", rc |-> rc, wrote |-> FALSE]
               ELSE Ended(i, [phase |-> "exited", rc |-> rc, wrote |-> FALSE])]
       /\ cleanSince' = [j \in Syncs |->
                           IF j = i /\ rc = 0 THEN cleanSince[j] ELSE 0]
  /\ UNCHANGED <<lastRead, creds, mounted, srcFile, now, spc, result, resp, steps,
                 srcSeen,
                 gwVars, restVars>>

\* sync.ts:74, second command: date -Iseconds > R2_MOUNT_PATH/.last-sync.
\* The clock reads the current second or has moved on to the next.
MirrorDate(i) ==
  /\ mirror[i].phase = "date"
  /\ \E t \in {now, IF now < MaxClock THEN now + 1 ELSE now} :
       /\ now' = t
       /\ IF mounted
            THEN marker' = DateISeconds(t) /\ UNCHANGED scratch
            ELSE scratch' = DateISeconds(t) /\ UNCHANGED marker
  /\ mirror' = [mirror EXCEPT ![i] =
                  Ended(i, [@ EXCEPT !.phase = "exited", !.wrote = TRUE])]
  /\ cleanSince' = [j \in Syncs |-> IF j = i THEN cleanSince[j] ELSE 0]
  /\ UNCHANGED <<lastRead, creds, mounted, srcFile, durable, spc, result, resp, steps,
                 srcSeen,
                 gwVars, restVars>>

\* sync.ts:78-103.  waitForProcess(proc, 30000) returns when the handle's
\* status is not 'running' or after 30 s, whichever the mirror process has
\* reached; then `cat .last-sync` is started (or startProcess throws), is
\* waited for 5 s and its output read; on a rejected marker proc.getLogs()
\* returns or throws.
SyncReadMarker(i) ==
  /\ spc[i] = "wait"
  /\ \E o \in {"throw", "timeout", "done"}, logsThrow \in BOOLEAN :
       /\ Disturbed(i, o # "done" \/ logsThrow
                       \/ ~(mirror[i].phase = "exited" /\ mirror[i].rc = 0))
       /\ IF o = "throw"
            THEN /\ Finish(i, Failure(ErrSyncError, "message"))
                 /\ UNCHANGED <<steps, lastRead>>
            ELSE /\ Did(i, "read")
                 /\ LET stdout == IF o = "done" THEN Cat(MarkerSeen) ELSE Empty
                        lastSync == Trim(stdout)
                    IN /\ lastRead' = [lastRead EXCEPT ![i] = lastSync]
                       /\ IF MarkerAccepted(lastSync)
                            THEN Finish(i, Success(lastSync))
                            ELSE IF logsThrow
                              THEN Finish(i, Failure(ErrSyncError, "message"))
                              ELSE Finish(i, Failure(ErrSyncFailed, "logs"))
  /\ UNCHANGED <<creds, mounted, srcFile, durable, marker, scratch, now,
                 mirror, srcSeen,
                 gwVars, restVars>>

\* the caller has answered (part_000:265-278) or logged (index.ts:147-151)
SyncReturn(i) ==
  /\ spc[i] = "ret"
  /\ spc' = [spc EXCEPT ![i] = "idle"]
  /\ result' = [result EXCEPT ![i] = NoResult]
  /\ resp' = [resp EXCEPT ![i] = NoResp]
  /\ steps' = [steps EXCEPT ![i] = << >>]
  /\ srcSeen' = [srcSeen EXCEPT ![i] = "mixed"]
  /\ cleanSince' = [cleanSince EXCEPT ![i] = 0]
  /\ lastRead' = [lastRead EXCEPT ![i] = Unread]
  /\ mirror' = [mirror EXCEPT ![i] = IF Running(@) THEN @ ELSE NoProc]
  /\ UNCHANGED <<creds, mounted, srcFile, durable, marker, scratch, now,
                 gwVars, restVars>>

(***************************************************************************)
(* The sandbox                                                             *)
(***************************************************************************)
\* the sandbox restarts: its processes are gone, its local files are those
\* of the image again and nothing is mounted
SandboxRestart ==
  /\ srcFile' = FALSE
  /\ mounted' = FALSE
  /\ scratch' = NoFile
  /\ mirror' = [i \in Syncs |->
                  IF Running(mirror[i])
                    THEN Ended(i, [mirror[i] EXCEPT !.phase = "killed"])
                    ELSE mirror[i]]
  /\ cleanSince' = [i \in Syncs |-> 0]
  /\ srcSeen' = [i \in Syncs |->
                   IF srcSeen[i] = "present" THEN "mixed" ELSE srcSeen[i]]
  /\ gwAlive' = {}
  /\ gwPort' = 0
  /\ UNCHANGED <<lastRead, creds, durable, marker, now, spc, result, resp, steps,
                 nextPid, ens, pstate, rpc, found, killThrew, rresp,
                 rsteps, restVars>>

\* the backend (or its start script) writes its configuration file
SourceWrite ==
  /\ ~srcFile
  /\ srcFile' = TRUE
  /\ srcSeen' = [i \in Syncs |-> "mixed"]
  /\ UNCHANGED <<lastRead, creds, mounted, durable, marker, scratch, now, spc, mirror,
                 result, resp, steps, cleanSince,
                 gwVars, restVars>>

\* part_000:230-247  GET /storage with the credentials set, from the request
\* to the sent answer: mountR2Storage, then `cat .last-sync`, whose output
\* goes into the answer.  It writes no file; what it leaves in the sandbox
\* is the mount.  StorageBegin .. StorageDone are its steps and its answer.
StorageStatus ==
  /\ IsConfigured(creds)
  /\ \E ok \in MountOutcomes : mounted' = ok
  /\ UNCHANGED <<lastRead, creds, srcFile, durable, marker, scratch, now, spc, mirror,
                 result, resp, steps, srcSeen, cleanSince,
                 gwVars, restVars>>

(***************************************************************************)
(* Specification of the sync engine                                        *)
(***************************************************************************)
Envs == [key : BOOLEAN, secret : BOOLEAN, account : BOOLEAN]

NoEnsure  == [st |-> "none", pid |-> 0]
NoRestart == [status |-> 0, success |-> FALSE, previousProcessId |-> 0]

\* callers of ensureClawdbotGateway: the proxied requests and, as 0, the
\* background task of the restart request
Proxies == 1..NumProxy
Restarter == 0
\* and, as -1, the device routes (part_000:70, 123, 155)
Admin == -1
Callers == Proxies \cup {Restarter, Admin}

InitGw ==
  /\ gwAlive = {}
  /\ gwPort = 0
  /\ nextPid = 1
  /\ ens = [k \in Callers |-> NoEnsure]
  /\ pstate = [i \in Proxies |-> "idle"]
  /\ rpc = "idle"
  /\ found = 0
  /\ killThrew = FALSE
  /\ rresp = NoRestart
  /\ rsteps = << >>

NoStatus == [ok |-> FALSE, status |-> "none", processId |-> 0]

InitStatus ==
  /\ hpc = "idle"
  /\ hproc = 0
  /\ hresp = NoStatus

\* JSON bodies of the device routes; kind names the shape
NoDevResp == [status |-> 0, kind |-> "none", success |-> FALSE,
              raw |-> << >>, stderr |-> << >>, parseError |-> FALSE,
              pending |-> << >>, approved |-> << >>, failed |-> << >>,
              count |-> 0, total |-> 0]

InitDevices ==
  /\ dpc = "idle"
  /\ dkind = "none"
  /\ dreq = 0
  /\ dout = << >>
  /\ derr = << >>
  /\ dexit = -1
  /\ dpending = << >>
  /\ dresults = << >>
  /\ dresp = NoDevResp
  /\ dstarted = << >>

\* a value that is undefined: a variable of env that is not set, a header
\* that is not there, logs.stdout of a process that captured none
Undefined == <<"undefined">>

\* a value that is null: a query parameter that is not there
Null == <<"null">>

NoAuthEnv == [devMode |-> Undefined, gatewayToken |-> Undefined,
              teamDomain |-> Undefined, aud |-> Undefined]
NoAuthReq == [query |-> Null, xGatewayToken |-> Undefined,
              authorization |-> Undefined, jwtHeader |-> Undefined,
              jwtCookie |-> Undefined]

\* no request is before the middleware
InitAccess ==
  /\ areq = NoAuthReq
  /\ apc = "idle"
  /\ auser = "none"
  /\ aran = 0
  /\ ares = "none"

InitWait ==
  /\ wkind = "none"
  /\ wtimeout = 0
  /\ wmax = 0
  /\ wattempts = 0
  /\ wsleeps = 0
  /\ wpc = "idle"
  /\ wstatus = "none"

NoStorageResp == [configured |-> FALSE, missing |-> << >>, lastSync |-> Unread,
                  message |-> "none"]

InitStorage ==
  /\ stpc = "idle"
  /\ stmount = "none"
  /\ ststeps = << >>
  /\ ststdout = Unread
  /\ stresp = NoStorageResp

InitRest ==
  /\ InitStorage
  /\ InitWait
  /\ InitStatus
  /\ InitDevices
  /\ pendingDev = {}
  /\ InitAccess
  /\ aenv = NoAuthEnv
  /\ aopt = [type |-> "json", redirectOnMissing |-> FALSE]

InitStore ==
  /\ mounted = FALSE
  /\ durable = "none"
  /\ marker = NoFile
  /\ scratch = NoFile
  /\ now = 1
  /\ spc = [i \in Syncs |-> "idle"]
  /\ mirror = [i \in Syncs |-> NoProc]
  /\ result = [i \in Syncs |-> NoResult]
  /\ resp = [i \in Syncs |-> NoResp]
  /\ steps = [i \in Syncs |-> << >>]
  /\ srcSeen = [i \in Syncs |-> "mixed"]
  /\ cleanSince = [i \in Syncs |-> 0]
  /\ lastRead = [i \in Syncs |-> Unread]

InitSync ==
  /\ creds \in Envs
  /\ srcFile \in BOOLEAN
  /\ InitStore
  /\ InitGw
  /\ InitRest

NextSync ==
  \/ \E i \in Syncs : SyncBegin(i)
  \/ \E i \in Syncs : SyncMount(i)
  \/ \E i \in Syncs : SyncCheck(i)
  \/ \E i \in Syncs : SyncStartMirror(i)
  \/ \E i \in Syncs : MirrorRsync(i)
  \/ \E i \in Syncs : MirrorDate(i)
  \/ \E i \in Syncs : SyncReadMarker(i)
  \/ \E i \in Syncs : SyncReturn(i)
  \/ StorageStatus
  \/ SandboxRestart
  \/ SourceWrite

SpecSync == InitSync /\ [][NextSync]_vars

(***************************************************************************)
(* Properties of the sync engine                                           *)
(***************************************************************************)
AllSteps == <<"configured", "mount", "check", "mirror", "read">>

IsPrefix(a, b) == Len(a) <= Len(b) /\ \A k \in 1..Len(a) : a[k] = b[k]

Performed(i, op) == \E k \in 1..Len(steps[i]) : steps[i][k] = op

AllCredentials == creds.key /\ creds.secret /\ creds.account

MirrorSucceeded(m) == m.phase = "exited" /\ m.rc = 0 /\ m.wrote

\* C1: a syncToR2 call during which the critical file is absent throughout
\* returns success=false and never starts the mirror command; the durable
\* content and marker change only in a step of the mirror process of an
\* invocation that did not see the file absent throughout, so such a call
\* leaves them as they were.
C1_AbsentSourceNoOp ==
  /\ [](\A i \in Syncs :
          (spc[i] # "idle" /\ srcSeen[i] = "absent") =>
             /\ mirror[i] = NoProc
             /\ ~Performed(i, "mirror")
             /\ spc[i] = "ret" => ~result[i].success)
  /\ [][(durable' # durable \/ marker' # marker) =>
          \E j \in Syncs : /\ Running(mirror[j])
                           /\ mirror'[j] # mirror[j]
                           /\ ~(spc[j] # "idle" /\ srcSeen[j] = "absent")]_vars

\* a call that found the critical file absent throughout has returned
\* 'Sync aborted' while the durable mirror holds a good backup and a marker
C1_Witness ==
  \E i \in Syncs : /\ spc[i] = "ret"
                   /\ srcSeen[i] = "absent"
                   /\ result[i].error = ErrSyncAborted
                   /\ durable = "good"
                   /\ marker.kind = "iso"

\* C2: syncToR2 returns success=true only if the mirror command of the same
\* invocation completed successfully and wrote the marker.
C2_SuccessOnlyAfterOwnMirror ==
  \A i \in Syncs :
    (spc[i] = "ret" /\ result[i].success) => MirrorSucceeded(mirror[i])

\* C3: the marker is written only by the date command of a sync invocation,
\* after its rsync and only when that rsync exited 0, with the current time;
\* a mirror process that exited after a successful rsync has written it; no
\* other step writes a marker.
C3_MarkerIffMirrorSucceeded ==
  /\ [](\A i \in Syncs :
          /\ mirror[i].wrote => mirror[i].rc = 0
          /\ (mirror[i].phase = "exited" /\ mirror[i].rc = 0) => mirror[i].wrote)
  /\ [][((marker' # marker /\ marker' # NoFile)
          \/ (scratch' # scratch /\ scratch' # NoFile)) =>
          \E i \in Syncs : /\ mirror[i].phase = "date"
                           /\ mirror[i].rc = 0
                           /\ Performed(i, "mirror") \/ spc[i] = "idle"
                           /\ DateISeconds(now') \in {marker', scratch'}]_vars

\* a mirror process has written the marker of the durable mirror while the
\* mirror process of the other invocation exited non-zero and wrote nothing
C3_Witness ==
  \E i, j \in Syncs : /\ mirror[i].wrote
                      /\ marker = DateISeconds(now)
                      /\ mirror[j].phase = "exited"
                      /\ mirror[j].rc = 1
                      /\ ~mirror[j].wrote

\* C4: the steps run in the order configured-check, mount, source check,
\* mirror, marker read, each gating the next: with a credential missing
\* nothing but the configured-check happens; a failed mount ends the call
\* with 'Failed to mount R2 storage' before any source check; a source check
\* that fails or throws ends the call before the mirror is started.
C4_StepsGateInOrder ==
  \A i \in Syncs :
    /\ IsPrefix(steps[i], AllSteps)
    /\ ~AllCredentials =>
          /\ Len(steps[i]) <= 1
          /\ mirror[i] = NoProc
          /\ spc[i] \in {"idle", "ret"}
          /\ spc[i] = "ret" => result[i].error = ErrNotConfigured
    /\ (spc[i] = "ret" /\ steps[i] = <<"configured", "mount">>) =>
          result[i].error \in {ErrMountFailed, ErrVerifyFailed}
    /\ (spc[i] = "ret" /\ result[i].error = ErrMountFailed) =>
          /\ steps[i] = <<"configured", "mount">>
          /\ mirror[i] = NoProc
    /\ (spc[i] = "ret"
        /\ result[i].error \in {ErrSyncAborted, ErrVerifyFailed}) =>
          /\ ~Performed(i, "mirror")
          /\ mirror[i] = NoProc
    /\ Performed(i, "mount") => AllCredentials

\* one call stopped at the failed mount while the other ran all five steps
C4_Witness ==
  \E i, j \in Syncs : /\ spc[i] = "ret"
                      /\ result[i].error = ErrMountFailed
                      /\ steps[i] = <<"configured", "mount">>
                      /\ spc[j] = "ret"
                      /\ steps[j] = AllSteps

C6_SyncStatusMapping ==
  (spc["manual"] = "ret") =>
     LET r == result["manual"]
         a == resp["manual"]
     IN /\ r.success =>
             a = [status |-> 200, success |-> TRUE, lastSync |-> r.lastSync,
                  error |-> NoError]
        /\ ~r.success =>
             /\ ~a.success
             /\ a.error = r.error
             /\ r.error \in {ErrNotConfigured, ErrMountFailed, ErrSyncAborted,
                             ErrVerifyFailed, ErrSyncFailed, ErrSyncError}
             /\ a.status = IF r.error = ErrNotConfigured THEN 400 ELSE 500
        /\ a.status = 400 <=> ~AllCredentials

\* the trigger answers 500 to a call whose mount failed
C6_Witness ==
  /\ spc["manual"] = "ret"
  /\ result["manual"].error = ErrMountFailed
  /\ resp["manual"].status = 500

\* C17: whatever each step of a syncToR2 call did, a throw included, the
\* call returns a result: one with success=false names its error, one with
\* success=true carries its lastSync, and the storage sync trigger answers
\* with that error or that lastSync in a JSON body.
C17_StructuredResults ==
  \A i \in Syncs :
    /\ spc[i] \in {"idle", "mount", "check", "mirror", "wait", "ret"}
    /\ spc[i] = "ret" =>
         /\ result[i].success => Truthy(result[i].lastSync)
         /\ ~result[i].success =>
              /\ result[i].error # NoError
              /\ Len(result[i].error) > 0
         /\ i = "manual" =>
              /\ resp[i].status \in {200, 400, 500}
              /\ resp[i].success = result[i].success
              /\ resp[i].success => /\ resp[i].lastSync = result[i].lastSync
                                    /\ resp[i].status = 200
              /\ ~resp[i].success => /\ resp[i].error = result[i].error
                                     /\ resp[i].error # NoError
                                     /\ resp[i].status # 200

\* the trigger has answered a call whose mirror step threw with the error
\* syncToR2 returned
C17_Witness ==
  /\ spc["manual"] = "ret"
  /\ steps["manual"] = <<"configured", "mount", "check">>
  /\ result["manual"] = Failure(ErrSyncError, "message")
  /\ resp["manual"].status = 500
  /\ resp["manual"].error = ErrSyncError

\* C19: under any interleaving of syncToR2 calls and sandbox restarts, no
\* mirror process replaces a good durable backup by the copy of a source
\* that lacks the critical file.
C19_GoodBackupNeverOverwritten ==
  [][~(durable = "good" /\ durable' = "bad")]_vars

(***************************************************************************)
(* The marker as the decider: one sandbox whose durable mirror holds any   *)
(* marker, left by an earlier run or written by another hand.              *)
(***************************************************************************)
MarkerFiles == {NoFile, Empty, Blank, Junk, DateJunk, DateISeconds(1)}

InitMarker ==
  /\ creds = [key |-> TRUE, secret |-> TRUE, account |-> TRUE]
  /\ srcFile \in BOOLEAN
  /\ mounted = FALSE
  /\ durable \in {"none", "good"}
  /\ marker \in MarkerFiles
  /\ scratch = NoFile
  /\ now = 1
  /\ spc = [i \in Syncs |-> "idle"]
  /\ mirror = [i \in Syncs |-> NoProc]
  /\ result = [i \in Syncs |-> NoResult]
  /\ resp = [i \in Syncs |-> NoResp]
  /\ steps = [i \in Syncs |-> << >>]
  /\ srcSeen = [i \in Syncs |-> "mixed"]
  /\ cleanSince = [i \in Syncs |-> 0]
  /\ lastRead = [i \in Syncs |-> Unread]
  /\ InitGw
  /\ InitRest

\* the two callers of syncToR2 over that sandbox
NextMarker ==
  \/ \E i \in Syncs : SyncBegin(i)
  \/ \E i \in Syncs : SyncMount(i)
  \/ \E i \in Syncs : SyncCheck(i)
  \/ \E i \in Syncs : SyncStartMirror(i)
  \/ \E i \in Syncs : MirrorRsync(i)
  \/ \E i \in Syncs : MirrorDate(i)
  \/ \E i \in Syncs : SyncReadMarker(i)
  \/ \E i \in Syncs : SyncReturn(i)

SpecMarker == InitMarker /\ [][NextMarker]_vars

\* the statement of C18 as the specification words it: every rejected
\* marker gives the error 'Sync failed'
C18_MarkerAloneDecides ==
  \A i \in Syncs :
    (spc[i] = "ret" /\ Performed(i, "read")) =>
       /\ result[i].success <=> lastRead[i].kind \in {"iso", "datejunk"}
       /\ result[i].success => result[i].lastSync = lastRead[i]
       /\ ~result[i].success => result[i].error = ErrSyncFailed

\* C18 (amended): once the marker has been read after the mirror step, the
\* call returns success=true exactly when what it read, trimmed, is not
\* empty and begins with YYYY-MM-DD, and returns that text as lastSync,
\* whatever became of the mirror process; for a missing, empty or other
\* marker it returns success=false, with the error 'Sync failed' and the
\* output of the mirror process as details or, when reading that output
\* throws, with the error 'Sync error'.
C18_MarkerDecidesSuccess ==
  \A i \in Syncs :
    (spc[i] = "ret" /\ Performed(i, "read")) =>
       /\ lastRead[i].kind \in {"empty", "junk", "iso", "datejunk"}
       /\ ~lastRead[i].nl
       /\ result[i].success <=> lastRead[i].kind \in {"iso", "datejunk"}
       /\ result[i].success => result[i].lastSync = lastRead[i]
       /\ ~result[i].success =>
            \/ result[i].error = ErrSyncFailed /\ result[i].details = "logs"
            \/ result[i].error = ErrSyncError /\ result[i].details = "message"

\* the call has read a marker that does not begin with a date and returned
\* 'Sync failed' although its mirror process has reported no error
C18_Witness ==
  \E i \in Syncs :
    /\ spc[i] = "ret"
    /\ lastRead[i].kind = "junk"
    /\ result[i].error = ErrSyncFailed
    /\ mirror[i].phase \in {"rsync", "date"}

(***************************************************************************)
(* The gateway supervisor                                                  *)
(***************************************************************************)
\* findExistingClawdbotProcess (gateway/process.ts, not among the sources):
\* a candidate of the process table, 0 when there is none; -1 stands for the
\* lookup throwing, which part_000:51 and part_000:313 provide for
FindOutcomes == {-1} \cup (IF gwAlive = {} THEN {0} ELSE gwAlive)

\* the catch block without its return
ProxyAfterEnsure_FallThrough(ok, upgrade) == IF upgrade THEN "ws" ELSE "http"

\* index.ts:100-129  the catch-all route once ensureClawdbotGateway has
\* returned (ok) or thrown: 503, or the hand-over by wsConnect or
\* containerFetch
ProxyAfterEnsure(ok, upgrade) ==
  IF ~ok THEN "503" ELSE IF upgrade THEN "ws" ELSE "http"

\* what the caller of ensureClawdbotGateway does when it settles: the
\* catch-all route answers; the restart's background task only logs
\* (part_000:301-303)
EnsureSettled(k, ok) ==
  /\ ens' = [ens EXCEPT ![k].st = IF ok THEN "ok" ELSE "fail"]
  /\ IF k \in Proxies
       THEN \E upgrade \in BOOLEAN :
              pstate' = [pstate EXCEPT ![k] = ProxyAfterEnsure(ok, upgrade)]
       ELSE UNCHANGED pstate

\* index.ts:94-101  a request reaches the catch-all route
ProxyRequest(i) ==
  /\ pstate[i] = "idle"
  /\ pstate' = [pstate EXCEPT ![i] = "ensuring"]
  /\ ens' = [ens EXCEPT ![i] = [st |-> "find", pid |-> 0]]
  /\ UNCHANGED <<gwAlive, gwPort, nextPid, rpc, found, killThrew, rresp,
                 rsteps, syncVars, restVars>>

\* ensureClawdbotGateway (gateway/process.ts, not among the sources), first
\* await: the probe.  A candidate is waited for; with none, one is launched.
EnsureFind(k) ==
  /\ ens[k].st = "find"
  /\ \E o \in FindOutcomes :
       IF o = -1 THEN EnsureSettled(k, FALSE)
       ELSE /\ ens' = [ens EXCEPT ![k] =
                         IF o = 0 THEN [st |-> "launch", pid |-> 0]
                                  ELSE [st |-> "wait", pid |-> o]]
            /\ UNCHANGED pstate
  /\ UNCHANGED <<gwAlive, gwPort, nextPid, rpc, found, killThrew, rresp,
                 rsteps, syncVars, restVars>>

\* ensureClawdbotGateway, second await: startProcess of the backend throws
\* or adds a process to the table
EnsureLaunch(k) ==
  /\ ens[k].st = "launch"
  /\ \E threw \in BOOLEAN :
       IF threw
         THEN EnsureSettled(k, FALSE) /\ UNCHANGED <<gwAlive, nextPid>>
         ELSE /\ nextPid <= MaxLaunch
              /\ gwAlive' = gwAlive \cup {nextPid}
              /\ nextPid' = nextPid + 1
              /\ ens' = [ens EXCEPT ![k] = [st |-> "wait", pid |-> nextPid]]
              /\ UNCHANGED pstate
  /\ UNCHANGED <<gwPort, rpc, found, killThrew, rresp, rsteps, syncVars,
                 restVars>>

\* ensureClawdbotGateway, third await: the process answers its port within
\* the timeout, or the wait throws
EnsureWait(k) ==
  /\ ens[k].st = "wait"
  /\ \E ready \in BOOLEAN :
       /\ ready => gwPort = ens[k].pid
       /\ EnsureSettled(k, ready)
  /\ UNCHANGED <<gwAlive, gwPort, nextPid, rpc, found, killThrew, rresp,
                 rsteps, syncVars, restVars>>

\* the answer of the catch-all route has been sent
ProxyDone(i) ==
  /\ pstate[i] \in {"ws", "http", "503"}
  /\ pstate' = [pstate EXCEPT ![i] = "idle"]
  /\ ens' = [ens EXCEPT ![i] = NoEnsure]
  /\ UNCHANGED <<gwAlive, gwPort, nextPid, rpc, found, killThrew, rresp,
                 rsteps, syncVars, restVars>>

\* a started backend binds the service port, if it is free
GwBind(p) ==
  /\ p \in gwAlive
  /\ gwPort = 0
  /\ gwPort' = p
  /\ UNCHANGED <<gwAlive, nextPid, ens, pstate, rpc, found, killThrew, rresp,
                 rsteps, syncVars, restVars>>

\* a backend process exits
GwExit(p) ==
  /\ p \in gwAlive
  /\ gwAlive' = gwAlive \ {p}
  /\ gwPort' = IF gwPort = p THEN 0 ELSE gwPort
  /\ UNCHANGED <<nextPid, ens, pstate, rpc, found, killThrew, rresp, rsteps,
                 syncVars, restVars>>

(***************************************************************************)
(* POST /gateway/restart                                                   *)
(***************************************************************************)
\* kill and settle whatever the lookup returned
RestartKills_Always(existing) == existing >= 0

\* part_000:289
RestartKills(existing) == existing # 0

\* kill() outside its own try: a throw reaches the handler's catch
AfterKill_Uncaught(threw) == IF threw THEN "error" ELSE "settle"

\* part_000:291-295  a throwing kill() is logged and the handler goes on
AfterKill(threw) == "settle"

\* part_000:306-312
RestartAnswer(existing) ==
  [status |-> 200, success |-> TRUE, previousProcessId |-> existing]

\* part_000:313-316
RestartError == [status |-> 500, success |-> FALSE, previousProcessId |-> 0]

\* part_000:300-312  ensureClawdbotGateway is called and runs to its first
\* await; the promise goes to waitUntil and the answer is returned
BootAndAnswer(existing, done) ==
  /\ ens' = [ens EXCEPT ![Restarter] = [st |-> "find", pid |-> 0]]
  /\ rresp' = RestartAnswer(existing)
  /\ rsteps' = done \o <<"boot", "respond">>
  /\ rpc' = "responded"

\* part_000:282-289  the lookup; with no candidate the handler goes straight
\* on to the boot.  A request is taken once the background task of the
\* previous one has settled.
RestartFind ==
  /\ rpc = "idle"
  /\ ens[Restarter].st \in {"none", "ok", "fail"}
  /\ \E o \in FindOutcomes :
       /\ found' = o
       /\ IF o = -1
            THEN /\ rresp' = RestartError
                 /\ rsteps' = <<"find", "respond">>
                 /\ rpc' = "responded"
                 /\ ens' = [ens EXCEPT ![Restarter] = NoEnsure]
            ELSE IF RestartKills(o)
              THEN /\ rpc' = "kill"
                   /\ rsteps' = <<"find">>
                   /\ ens' = [ens EXCEPT ![Restarter] = NoEnsure]
                   /\ UNCHANGED rresp
              ELSE BootAndAnswer(o, <<"find">>)
  /\ killThrew' = FALSE
  /\ UNCHANGED <<gwAlive, gwPort, nextPid, pstate, syncVars, restVars>>

\* part_000:290-295  existingProcess.kill(): the process is gone, or kill()
\* threw and the process is gone or not
RestartKill ==
  /\ rpc = "kill"
  /\ \E threw \in BOOLEAN, gone \in BOOLEAN :
       /\ ~threw => gone
       /\ killThrew' = threw
       /\ gwAlive' = IF gone THEN gwAlive \ {found} ELSE gwAlive
       /\ gwPort' = IF gone /\ gwPort = found THEN 0 ELSE gwPort
       /\ IF AfterKill(threw) = "settle"
            THEN rpc' = "settle" /\ UNCHANGED rresp
            ELSE rpc' = "responded" /\ rresp' = RestartError
  /\ rsteps' = Append(rsteps, "kill")
  /\ UNCHANGED <<nextPid, ens, pstate, found, syncVars, restVars>>

\* part_000:297-312  the 2000 ms timer fires; then the boot and the answer
RestartSettle ==
  /\ rpc = "settle"
  /\ BootAndAnswer(found, Append(rsteps, "settle"))
  /\ UNCHANGED <<gwAlive, gwPort, nextPid, pstate, found, killThrew,
                 syncVars, restVars>>

\* the answer of the restart route has been sent
RestartDone ==
  /\ rpc = "responded"
  /\ rpc' = "idle"
  /\ rresp' = NoRestart
  /\ rsteps' = << >>
  /\ found' = 0
  /\ killThrew' = FALSE
  /\ UNCHANGED <<gwAlive, gwPort, nextPid, ens, pstate, syncVars, restVars>>

(***************************************************************************)
(* GET /status                                                             *)
(***************************************************************************)
\* part_000:40
StatusNotRunning == [ok |-> FALSE, status |-> "not_running", processId |-> 0]

\* part_000:52
StatusError == [ok |-> FALSE, status |-> "error", processId |-> 0]

\* a port that does not answer reported like an absent process
StatusAfterWait_NotRunning(ready, p) ==
  IF ready THEN [ok |-> TRUE, status |-> "running", processId |-> p]
           ELSE StatusNotRunning

\* part_000:45-50  process.waitForPort(18789) returned (ready) or threw
StatusAfterWait(ready, p) ==
  IF ready THEN [ok |-> TRUE, status |-> "running", processId |-> p]
           ELSE [ok |-> FALSE, status |-> "not_responding", processId |-> p]

\* part_000:39-41  with no backend in the process table the handler answers
\* not_running at once: it has no call to ensureMoltbotGateway or
\* startProcess, so the lookup with outcome o starts nothing
StatusStarts_WhenAbsent(o) == o = 0
StatusStarts(o) == FALSE

\* part_000:34-41, 51-53  the lookup: it throws, finds nothing or returns a
\* candidate, whose port the handler then waits for
StatusFind ==
  /\ hpc = "idle"
  /\ \E o \in FindOutcomes :
       /\ hproc' = o
       /\ IF o = -1 THEN hresp' = StatusError /\ hpc' = "responded"
          ELSE IF o = 0 THEN hresp' = StatusNotRunning /\ hpc' = "responded"
          ELSE hpc' = "wait" /\ UNCHANGED hresp
       /\ IF StatusStarts(o) /\ nextPid <= MaxLaunch
          THEN gwAlive' = gwAlive \cup {nextPid} /\ nextPid' = nextPid + 1
          ELSE UNCHANGED <<gwAlive, nextPid>>
  /\ UNCHANGED <<gwPort, ens, pstate, rpc, found, killThrew, rresp, rsteps,
                 syncVars, devVars, authVars, waitVars, storVars>>

\* part_000:45-50  waitForPort returns when the candidate answers the port
\* within 5000 ms and throws otherwise
StatusWait ==
  /\ hpc = "wait"
  /\ \E ready \in BOOLEAN :
       /\ ready => gwPort = hproc
       /\ hresp' = StatusAfterWait(ready, hproc)
  /\ hpc' = "responded"
  /\ UNCHANGED <<hproc, gwVars, syncVars,
                 devVars, authVars, waitVars, storVars>>

\* the answer of the health request has been sent
StatusDone ==
  /\ hpc = "responded"
  /\ hpc' = "idle"
  /\ hproc' = 0
  /\ hresp' = NoStatus
  /\ UNCHANGED <<gwVars, syncVars,
                 devVars, authVars, waitVars, storVars>>

(***************************************************************************)
(* Specification of the gateway supervisor                                 *)
(***************************************************************************)
InitGateway ==
  /\ creds = [key |-> FALSE, secret |-> FALSE, account |-> FALSE]
  /\ srcFile = FALSE
  /\ InitStore
  /\ InitGw
  /\ InitRest

NextGateway ==
  \/ \E i \in Proxies : ProxyRequest(i)
  \/ \E k \in Callers : EnsureFind(k)
  \/ \E k \in Callers : EnsureLaunch(k)
  \/ \E k \in Callers : EnsureWait(k)
  \/ \E i \in Proxies : ProxyDone(i)
  \/ \E p \in 1..MaxLaunch : GwBind(p)
  \/ \E p \in 1..MaxLaunch : GwExit(p)
  \/ RestartFind
  \/ RestartKill
  \/ RestartSettle
  \/ RestartDone
  \/ SandboxRestart

SpecGateway == InitGateway /\ [][NextGateway]_vars

\* the health request beside the proxied requests that start the backend
NextStatus ==
  \/ StatusFind
  \/ StatusWait
  \/ StatusDone
  \/ \E i \in Proxies : ProxyRequest(i)
  \/ \E k \in Callers : EnsureFind(k)
  \/ \E k \in Callers : EnsureLaunch(k)
  \/ \E k \in Callers : EnsureWait(k)
  \/ \E i \in Proxies : ProxyDone(i)
  \/ \E p \in 1..MaxLaunch : GwBind(p)
  \/ \E p \in 1..MaxLaunch : GwExit(p)
  \/ SandboxRestart

SpecStatus == InitGateway /\ [][NextStatus]_vars

(***************************************************************************)
(* Properties of the gateway supervisor                                    *)
(***************************************************************************)
Did1(op) == \E k \in 1..Len(rsteps) : rsteps[k] = op

Count(op) == Cardinality({k \in 1..Len(rsteps) : rsteps[k] = op})

\* C7: under any interleaving of proxied requests and restart requests never
\* more than one backend instance is started or running at a time.
C7_NoDoubleBoot == Cardinality(gwAlive) <= 1

\* C8: the catch-all route hands a request over (wsConnect or containerFetch)
\* only in the step in which the ensureClawdbotGateway call of that same
\* request returns, having seen the backend answer its port; when that call
\* throws the request is answered 503 and is not handed over.
C8_ForwardOnlyAfterEnsure ==
  /\ [](\A i \in Proxies :
          /\ pstate[i] \in {"ws", "http"} => ens[i].st = "ok"
          /\ pstate[i] = "503" => ens[i].st = "fail"
          /\ ens[i].st = "ok" => pstate[i] \in {"ws", "http"}
          /\ ens[i].st = "fail" => pstate[i] = "503")
  /\ [][\A i \in Proxies :
          (pstate'[i] \in {"ws", "http"} /\ pstate'[i] # pstate[i]) =>
             /\ pstate[i] = "ensuring"
             /\ ens[i].st = "wait"
             /\ gwPort = ens[i].pid
             /\ gwPort \in gwAlive]_vars

\* one request has been handed over after its own probe found the backend
\* absent and launched it
C8_Witness ==
  \E i \in Proxies : /\ pstate[i] \in {"ws", "http"}
                     /\ ens[i].pid = gwPort
                     /\ gwPort # 0

\* C9: a restart that found a candidate kills it, then waits the settle
\* interval, then starts the boot and answers, in that order; the answer is
\* {success: true, previousProcessId: the candidate} whether or not kill()
\* threw and whatever becomes of the boot, which is still running or has
\* failed or succeeded when the answer stands.
C9_RestartKillSettleBoot ==
  /\ found > 0 =>
       /\ IsPrefix(rsteps, <<"find", "kill", "settle", "boot", "respond">>)
       /\ rpc = "kill" => rsteps = <<"find">>
       /\ rpc = "settle" => rsteps = <<"find", "kill">>
       /\ rpc = "responded" =>
            /\ rsteps = <<"find", "kill", "settle", "boot", "respond">>
            /\ rresp = [status |-> 200, success |-> TRUE,
                        previousProcessId |-> found]
       /\ rpc \in {"kill", "settle"} => ens[Restarter].st = "none"
  /\ killThrew => found > 0 /\ Did1("kill")
  /\ ens[Restarter].st \in {"find", "launch", "wait"} =>
       rpc \in {"idle", "responded"}

\* the restart has answered success although kill() threw, the candidate is
\* still in the process table and the boot has failed
C9_Witness ==
  /\ rpc = "responded"
  /\ found > 0
  /\ found \in gwAlive
  /\ killThrew
  /\ ens[Restarter].st = "fail"
  /\ rresp.success

\* C10: a restart whose lookup finds no backend process answers success:true
\* with previousProcessId undefined, performs no kill and no settle wait, and
\* calls the boot exactly once.
C10_RestartWithoutProcess ==
  (rpc # "idle" /\ found = 0) =>
     /\ rpc = "responded"
     /\ rresp = [status |-> 200, success |-> TRUE, previousProcessId |-> 0]
     /\ rsteps = <<"find", "boot", "respond">>
     /\ Count("boot") = 1
     /\ ~Did1("kill")
     /\ ~Did1("settle")
     /\ ~killThrew

\* the restart found nothing, has answered, and its one boot has launched a
\* backend that answers the port
C10_Witness ==
  /\ rpc = "responded"
  /\ found = 0
  /\ Count("boot") = 1
  /\ ens[Restarter].st = "ok"
  /\ gwPort # 0

\* C11: the health request answers not_running when its lookup finds no
\* backend process, error when the lookup throws, and otherwise, with the
\* id of the process found, running when that process answers the port
\* within the wait and not_responding when it does not.
C11_HealthStatus ==
  /\ [](hpc = "responded" =>
          /\ hresp.status \in {"not_running", "running", "not_responding",
                               "error"}
          /\ hresp.status = "not_running" <=> hproc = 0
          /\ hresp.status = "error" <=> hproc = -1
          /\ hresp.status \in {"running", "not_responding"} <=> hproc > 0
          /\ hresp.processId = (IF hproc > 0 THEN hproc ELSE 0)
          /\ hresp.ok <=> hresp.status = "running")
  /\ [][(hpc # "responded" /\ hpc' = "responded") =>
          /\ hresp'.status = "not_running" => gwAlive = {}
          /\ hresp'.status = "running" =>
                hpc = "wait" /\ gwPort = hproc /\ hproc \in gwAlive
          /\ (hpc = "wait" /\ gwPort # hproc) =>
                hresp'.status = "not_responding"]_vars

\* the health request has answered not_responding for a process that is in
\* the process table and has not bound the port
C11_Witness ==
  /\ hpc = "responded"
  /\ hresp = [ok |-> FALSE, status |-> "not_responding", processId |-> hproc]
  /\ hproc \in gwAlive
  /\ gwPort = 0

(***************************************************************************)
(* The device routes: the CLI's text turned into structured answers.       *)
(* A text is the sequence of its pieces.  Of the list command the pieces   *)
(* are the two braces, "p" for well-formed members that name the pending   *)
(* devices, and "x" for any other text.  Of an approve command they are    *)
(* the success keyword in three spellings and "error" for any other text.  *)
(***************************************************************************)
RECURSIVE SeqsUpTo(_, _)
SeqsUpTo(A, n) ==
  IF n = 0 THEN {<< >>}
  ELSE LET shorter == SeqsUpTo(A, n - 1)
       IN shorter \cup {Append(t, a) : t \in {u \in shorter : Len(u) = n - 1},
                                       a \in A}

ListPieces == {"{", "}", "p", "x"}
ListTexts == SeqsUpTo(ListPieces, MaxOut)

ApprovePieces == {"approved", "Approved", "APPROVED", "error"}
ApproveTexts == SeqsUpTo(ApprovePieces, MaxWords)

Stderrs == {<< >>, <<"warning">>}

\* exitCode: undefined (-1) while the process runs, else 0 or 1
ExitCodes == {-1, 0, 1}

\* part_000:78, 130  logs.stdout || ''
OrEmpty(s) == IF s = Undefined THEN << >> ELSE s

\* String.prototype.toLowerCase
ToLowerCase(s) ==
  [k \in 1..Len(s) |->
     IF s[k] \in {"Approved", "APPROVED"} THEN "approved" ELSE s[k]]

\* part_000:84  stdout.match(/\{[\s\S]*\}/): the span from the first '{' to
\* the last '}' behind it, << >> for null
JsonMatch(s) ==
  LET opens  == {k \in 1..Len(s) : s[k] = "{"}
      first  == CHOOSE k \in opens : \A j \in opens : k <= j
      closes == {k \in 1..Len(s) : s[k] = "}" /\ k > first}
      last   == CHOOSE k \in closes : \A j \in closes : k >= j
  IN IF opens = {} THEN << >>
     ELSE IF closes = {} THEN << >>
     ELSE SubSeq(s, first, last)

\* part_000:86  JSON.parse returns for an object and throws for other text
JsonParses(span) == span \in {<<"{", "}">>, <<"{", "p", "}">>}

\* the devices the backend holds as pending, as the list command prints them
PendingList ==
  SelectSeq([k \in 1..MaxDevices |-> k], LAMBDA d : d \in pendingDev)

\* data.pending of the parsed object
ParsedPending(span) == IF span = <<"{", "p", "}">> THEN PendingList ELSE << >>

\* part_000:87  c.json(data)
ListData(span) ==
  [NoDevResp EXCEPT !.status = 200, !.kind = "data",
                    !.pending = ParsedPending(span)]

\* part_000:91-96
ListNoMatch(stdout, stderr) ==
  [NoDevResp EXCEPT !.status = 200, !.kind = "listing", !.raw = stdout,
                    !.stderr = stderr]

\* the catch block answering without the raw text
ListParseError_NoRaw(stdout, stderr) ==
  [NoDevResp EXCEPT !.status = 200, !.kind = "listing",
                    !.parseError = TRUE]

\* part_000:97-104
ListParseError(stdout, stderr) ==
  [NoDevResp EXCEPT !.status = 200, !.kind = "listing", !.raw = stdout,
                    !.stderr = stderr, !.parseError = TRUE]

\* part_000:81-105
DevicesList(stdout, stderr) ==
  LET jsonMatch == JsonMatch(stdout)
  IN IF jsonMatch # << >>
       THEN IF JsonParses(jsonMatch) THEN ListData(jsonMatch)
                                     ELSE ListParseError(stdout, stderr)
       ELSE ListNoMatch(stdout, stderr)

\* part_000:107-108, 144-145, 208-209
DevError == [NoDevResp EXCEPT !.status = 500, !.kind = "error"]

\* part_000:118
DevBadRequest == [NoDevResp EXCEPT !.status = 400, !.kind = "error"]

\* success decided by the exit code alone
ApproveSuccess_ExitOnly(stdout, exitCode) == exitCode = 0

\* part_000:134  stdout.toLowerCase().includes('approved') ||
\* proc.exitCode === 0
ApproveSuccess(stdout, exitCode) ==
  Includes(ToLowerCase(stdout), <<"approved">>) \/ exitCode = 0

\* part_000:136-142
ApproveAnswer(stdout, stderr, exitCode) ==
  [NoDevResp EXCEPT !.status = 200, !.kind = "approve",
                    !.success = ApproveSuccess(OrEmpty(stdout), exitCode),
                    !.raw = OrEmpty(stdout), !.stderr = stderr]

\* part_000:189  approveLogs.stdout?.toLowerCase().includes('approved') ||
\* approveProc.exitCode === 0
ItemSuccess(stdout, exitCode) ==
  IF stdout = Undefined THEN exitCode = 0
  ELSE Includes(ToLowerCase(stdout), <<"approved">>) \/ exitCode = 0

\* part_000:191
ItemResult(id, ok) == [requestId |-> id, success |-> ok, error |-> FALSE]

\* part_000:193-197
ItemThrew(id) == [requestId |-> id, success |-> FALSE, error |-> TRUE]

\* the loop without its try: a throw reaches the handler's catch
AfterItemThrow_Abort == "abort"

\* part_000:184, 192-198  the throw of one approval is caught in the loop
AfterItemThrow == "continue"

Ids(rs) == [k \in 1..Len(rs) |-> rs[k].requestId]

\* part_000:173
BulkParseError(stdout) ==
  [NoDevResp EXCEPT !.status = 500, !.kind = "error", !.raw = stdout]

\* part_000:177
BulkNothing == [NoDevResp EXCEPT !.status = 200, !.kind = "bulk"]

\* part_000:201-206
BulkAnswer(results, pending) ==
  LET approved == SelectSeq(results, LAMBDA r : r.success)
  IN [NoDevResp EXCEPT !.status = 200, !.kind = "bulk",
                       !.approved = Ids(approved),
                       !.failed = SelectSeq(results, LAMBDA r : ~r.success),
                       !.count = Len(approved),
                       !.total = Len(pending)]

DevAnswer(r) ==
  /\ dresp' = r
  /\ dpc' = "responded"

\* a request reaches one of the three device routes; an approve without a
\* requestId is answered 400 (part_000:117-119), every other request calls
\* ensureClawdbotGateway first (part_000:70, 123, 155)
DevRequest ==
  /\ dpc = "idle"
  /\ ens[Admin].st = "none"
  /\ \E kind \in {"list", "approve", "all"}, id \in 0..MaxDevices :
       /\ kind # "approve" => id = 0
       /\ dkind' = kind
       /\ dreq' = id
       /\ IF kind = "approve" /\ id = 0
            THEN DevAnswer(DevBadRequest) /\ UNCHANGED ens
            ELSE /\ dpc' = "ensuring"
                 /\ ens' = [ens EXCEPT ![Admin] = [st |-> "find", pid |-> 0]]
                 /\ UNCHANGED dresp
  /\ UNCHANGED <<pendingDev, dout, derr, dexit, dpending, dresults, dstarted,
                 gwAlive, gwPort, nextPid, pstate, rpc, found, killThrew,
                 rresp, rsteps, statVars, syncVars,
                 authVars, waitVars, storVars>>

\* an approve command that exits 0 has approved its device
Approved(id, exitCode) ==
  IF exitCode = 0 THEN pendingDev \ {id} ELSE pendingDev

\* part_000:74-105  GET /devices once ensureClawdbotGateway has returned:
\* the list command is started, waited for and its logs read (any of which
\* may throw), then its stdout is parsed
DevicesListRun ==
  \E threw \in BOOLEAN, stdout \in ListTexts \cup {Undefined},
     stderr \in Stderrs :
       IF threw
         THEN DevAnswer(DevError) /\ UNCHANGED <<dout, derr>>
         ELSE /\ dout' = stdout
              /\ derr' = stderr
              /\ DevAnswer(DevicesList(OrEmpty(stdout), stderr))

\* part_000:126-142  POST /devices/:requestId/approve
ApproveRun ==
  \E threw \in BOOLEAN, stdout \in ApproveTexts \cup {Undefined},
     stderr \in Stderrs, exitCode \in ExitCodes :
     /\ dstarted' = <<dreq>>
     /\ IF threw
         THEN /\ DevAnswer(DevError)
              /\ UNCHANGED <<dout, derr, dexit, pendingDev>>
         ELSE /\ dout' = stdout
              /\ derr' = stderr
              /\ dexit' = exitCode
              /\ pendingDev' = Approved(dreq, exitCode)
              /\ DevAnswer(ApproveAnswer(stdout, stderr, exitCode))

\* part_000:158-181  POST /devices/approve-all up to its loop
ApproveAllList ==
  \E threw \in BOOLEAN, stdout \in ListTexts \cup {Undefined} :
       IF threw
         THEN DevAnswer(DevError) /\ UNCHANGED <<dout, dpending>>
         ELSE LET jsonMatch == JsonMatch(OrEmpty(stdout))
                  pending == IF jsonMatch # << >>
                               THEN ParsedPending(jsonMatch) ELSE << >>
              IN /\ dout' = stdout
                 /\ IF jsonMatch # << >> /\ ~JsonParses(jsonMatch)
                      THEN /\ DevAnswer(BulkParseError(OrEmpty(stdout)))
                           /\ UNCHANGED dpending
                    ELSE IF Len(pending) = 0
                      THEN DevAnswer(BulkNothing) /\ UNCHANGED dpending
                      ELSE /\ dpending' = pending
                           /\ dpc' = "items"
                           /\ UNCHANGED dresp

\* the device request goes on when its ensureClawdbotGateway call returns,
\* and answers 500 when that call throws
DevAfterEnsure ==
  /\ dpc = "ensuring"
  /\ ens[Admin].st \in {"ok", "fail"}
  /\ ens' = [ens EXCEPT ![Admin] = NoEnsure]
  /\ IF ens[Admin].st = "fail"
       THEN /\ DevAnswer(DevError)
            /\ UNCHANGED <<pendingDev, dout, derr, dexit, dpending, dstarted>>
       ELSE CASE dkind = "list" ->
                   DevicesListRun
                     /\ UNCHANGED <<pendingDev, dexit, dpending, dstarted>>
              [] dkind = "approve" ->
                   ApproveRun /\ UNCHANGED dpending
              [] OTHER ->
                   ApproveAllList
                     /\ UNCHANGED <<pendingDev, derr, dexit, dstarted>>
  /\ UNCHANGED <<dkind, dreq, dresults,
                 gwAlive, gwPort, nextPid, pstate, rpc, found, killThrew,
                 rresp, rsteps, statVars, syncVars,
                 authVars, waitVars, storVars>>

\* the first device of the list at every turn
NextDevice_First(pending, results) == pending[1]

\* part_000:183  for (const device of pending): the device of the turn that
\* follows the results made so far
NextDevice(pending, results) == pending[Len(results) + 1]

\* part_000:183-206  one turn of the loop: the approve command of the next
\* pending device is started, waited for and its logs read, any of which
\* may throw; after the last turn the answer is made
ApproveAllItem ==
  /\ dpc = "items"
  /\ Len(dresults) < Len(dpending)
  /\ LET id == NextDevice(dpending, dresults)
     IN \E threw \in BOOLEAN, stdout \in ApproveTexts \cup {Undefined},
           exitCode \in ExitCodes :
          /\ dstarted' = Append(dstarted, id)
          /\ IF threw /\ AfterItemThrow = "abort"
            THEN /\ DevAnswer(DevError)
                 /\ UNCHANGED <<dresults, dout, dexit, pendingDev>>
            ELSE LET r == IF threw THEN ItemThrew(id)
                          ELSE ItemResult(id, ItemSuccess(stdout, exitCode))
                     results == Append(dresults, r)
                 IN /\ dresults' = results
                    /\ IF threw
                         THEN /\ dout' = << >>
                              /\ dexit' = -1
                              /\ UNCHANGED pendingDev
                         ELSE /\ dout' = stdout
                              /\ dexit' = exitCode
                              /\ pendingDev' = Approved(id, exitCode)
                    /\ IF Len(results) = Len(dpending)
                         THEN DevAnswer(BulkAnswer(results, dpending))
                         ELSE UNCHANGED <<dpc, dresp>>
  /\ UNCHANGED <<dkind, dreq, derr, dpending, gwVars, statVars, syncVars,
                 authVars, waitVars, storVars>>

\* the answer of the device request has been sent
DevDone ==
  /\ dpc = "responded"
  /\ dpc' = "idle"
  /\ dkind' = "none"
  /\ dreq' = 0
  /\ dout' = << >>
  /\ derr' = << >>
  /\ dexit' = -1
  /\ dpending' = << >>
  /\ dresults' = << >>
  /\ dresp' = NoDevResp
  /\ dstarted' = << >>
  /\ UNCHANGED <<pendingDev, gwVars, statVars, syncVars,
                 authVars, waitVars, storVars>>

\* a device asks to be paired
DevicePairs ==
  /\ \E d \in 1..MaxDevices :
       /\ d \notin pendingDev
       /\ pendingDev' = pendingDev \cup {d}
  /\ UNCHANGED <<dpc, dkind, dreq, dout, derr, dexit, dpending, dresults,
                 dresp, dstarted, gwVars, statVars, syncVars,
                 authVars, waitVars, storVars>>

(***************************************************************************)
(* Specification of the device routes                                      *)
(***************************************************************************)
NextDevices ==
  \/ DevRequest
  \/ \E k \in Callers : EnsureFind(k)
  \/ \E k \in Callers : EnsureLaunch(k)
  \/ \E k \in Callers : EnsureWait(k)
  \/ \E p \in 1..MaxLaunch : GwBind(p)
  \/ DevAfterEnsure
  \/ ApproveAllItem
  \/ DevDone
  \/ DevicePairs

SpecDevices == InitGateway /\ [][NextDevices]_vars

(***************************************************************************)
(* Properties of the device routes                                         *)
(***************************************************************************)
\* the text holds the success keyword in some spelling
HasKeyword(s) ==
  \E k \in 1..Len(s) : s[k] \in {"approved", "Approved", "APPROVED"}

\* the text holds a '{' with a '}' somewhere behind it
HasSpan(s) ==
  \E i, j \in 1..Len(s) : i < j /\ s[i] = "{" /\ s[j] = "}"

\* the text from the first '{' to the last '}' is an object
SpanDecodes(s) ==
  \E i, j \in 1..Len(s) :
     /\ i < j /\ s[i] = "{" /\ s[j] = "}"
     /\ \A k \in 1..(i - 1) : s[k] # "{"
     /\ \A k \in (j + 1)..Len(s) : s[k] # "}"
     /\ \/ j = i + 1
        \/ j = i + 2 /\ s[i + 1] = "p"

LastResult == dresults[Len(dresults)]

\* C12: an approve command counts as a success exactly when it exited 0 or
\* its stdout holds the keyword 'approved' in any spelling, in the single
\* route and in each turn of the bulk route alike; the keyword with a
\* non-zero exit code is a success.
C12_ApproveSuccessIsOr ==
  /\ (dpc = "responded" /\ dresp.kind = "approve") =>
        (dresp.success <=> (dexit = 0 \/ HasKeyword(dout)))
  /\ (dkind = "all" /\ Len(dresults) > 0 /\ ~LastResult.error) =>
        (LastResult.success <=> (dexit = 0 \/ HasKeyword(dout)))

\* the single route has answered success for an approve command that
\* printed the keyword in capitals and exited 1
C12_Witness ==
  /\ dpc = "responded"
  /\ dresp.kind = "approve"
  /\ dexit = 1
  /\ dout = <<"error", "APPROVED">>
  /\ dresp.success

\* C13: a listing whose stdout holds no span from a '{' to a '}' is answered
\* with empty pending and paired, the raw text and the parse-failure marker.
C13_ExtractionFailureMarked ==
  (dpc = "responded" /\ dkind = "list" /\ dresp.kind # "error"
   /\ ~HasSpan(OrEmpty(dout))) =>
      /\ dresp.kind = "listing"
      /\ dresp.pending = << >>
      /\ dresp.raw = OrEmpty(dout)
      /\ dresp.parseError

\* C14: a listing whose stdout holds a span from a '{' to a '}' that does not
\* decode is answered 200 with empty pending and paired, the captured stdout
\* as raw, the captured stderr and the parseError marker.
C14_DecodeFailureListing ==
  (dpc = "responded" /\ dkind = "list" /\ dresp.kind # "error"
   /\ HasSpan(OrEmpty(dout)) /\ ~SpanDecodes(OrEmpty(dout))) =>
      /\ dresp.status = 200
      /\ dresp.kind = "listing"
      /\ dresp.pending = << >>
      /\ dresp.raw = OrEmpty(dout)
      /\ dresp.stderr = derr
      /\ dresp.parseError

\* the listing of an output whose braces hold other text carries the marker
C14_Witness ==
  /\ dpc = "responded"
  /\ dkind = "list"
  /\ dout = <<"{", "x", "}">>
  /\ derr = <<"warning">>
  /\ dresp.parseError
  /\ dresp.raw = dout

\* the ids are those of pending, in the order of pending
InOrderOf(ids, pending) ==
  \E f \in [1..Len(ids) -> 1..Len(pending)] :
     /\ \A k \in 1..Len(ids) : ids[k] = pending[f[k]]
     /\ \A k \in 1..(Len(ids) - 1) : f[k] < f[k + 1]

\* C15: once the bulk approve has parsed a non-empty pending list, a throw
\* inside one approval becomes the failed result of that device and the
\* loop goes on: the answer is never an error, every pending device has
\* exactly one result, approved and failed hold the devices with a
\* successful and an unsuccessful result, each in the order of pending, and
\* the message counts the approved devices out of the pending ones.
C15_BulkApproveIsolatesFailures ==
  (dkind = "all" /\ Len(dpending) > 0) =>
     /\ dpc \in {"items", "responded"}
     /\ Len(dresults) <= Len(dpending)
     /\ \A k \in 1..Len(dresults) :
          /\ dresults[k].requestId = dpending[k]
          /\ dresults[k].error => ~dresults[k].success
     /\ dpc = "items" => Len(dresults) < Len(dpending)
     /\ dpc = "responded" =>
          /\ dresp.status = 200
          /\ dresp.kind = "bulk"
          /\ Len(dresults) = Len(dpending)
          /\ Len(dresp.approved) + Len(dresp.failed) = Len(dpending)
          /\ InOrderOf(dresp.approved, dpending)
          /\ InOrderOf(Ids(dresp.failed), dpending)
          /\ \A k \in 1..Len(dresults) :
               IF dresults[k].success
                 THEN \E j \in 1..Len(dresp.approved) :
                         dresp.approved[j] = dpending[k]
                 ELSE \E j \in 1..Len(dresp.failed) :
                         dresp.failed[j] = dresults[k]
          /\ dresp.count = Cardinality({k \in 1..Len(dresults) :
                                          dresults[k].success})
          /\ dresp.total = Len(dpending)

\* the approval of the first of the pending devices threw, the others were
\* approved, and the answer names all of them
C15_Witness ==
  /\ dkind = "all"
  /\ dpc = "responded"
  /\ Len(dpending) = MaxDevices
  /\ dresults[1].error
  /\ \A k \in 2..Len(dresults) : dresults[k].success
  /\ dresp.count = MaxDevices - 1
  /\ Len(dresp.failed) = 1

(***************************************************************************)
(* The access middleware of a protected route group.  A header, a          *)
(* parameter or a variable of env is the sequence of its words, Undefined  *)
(* or Null when it is not there.                                           *)
(***************************************************************************)
\* JavaScript truthiness of such a value
Present(v) == v \notin {Undefined, Null, << >>}

\* a || b
Or(a, b) == IF Present(a) THEN a ELSE b

\* part_000:341-343  env.DEV_MODE === 'true'
IsDevMode(env) == env.devMode = <<"true">>

\* part_000:348-356
ExtractJWT(req) == Or(Or(req.jwtHeader, req.jwtCookie), Null)

\* String.prototype.replace('Bearer ', ''): the first 'Bearer ' is removed
ReplaceBearer(v) ==
  IF Len(v) >= 2 /\ v[1] = "Bearer" THEN Tail(v) ELSE v

\* part_000:367
HeaderToken(req) ==
  Or(req.xGatewayToken,
     IF req.authorization = Undefined THEN Undefined
     ELSE ReplaceBearer(req.authorization))

\* the comparison without the test of the configured token
HasValidGatewayToken_NoGuard(env, req) ==
  \/ req.query = env.gatewayToken
  \/ HeaderToken(req) = env.gatewayToken

\* part_000:361-370
HasValidGatewayToken(env, req) ==
  IF ~Present(env.gatewayToken) THEN FALSE
  ELSE \/ req.query = env.gatewayToken
       \/ HeaderToken(req) = env.gatewayToken

\* part_000:400
AccessConfigured(env) == Present(env.teamDomain) /\ Present(env.aud)

\* part_000:421-442  the answer to a request without a JWT
MissingJWTAnswer(opt) ==
  IF opt.type = "html" /\ opt.redirectOnMissing THEN "302" ELSE "401"

\* verifyAccessJWT (auth/jwt.ts, not among the sources): it returns the
\* payload of an assertion that verifies and throws for any other; fetching
\* the keys may make it throw for any assertion
VerifyOutcomes(jwt) == IF jwt = <<"signed">> THEN BOOLEAN ELSE {FALSE}

AccessNext(user) ==
  /\ auser' = user
  /\ aran' = aran + 1
  /\ ares' = "next"
  /\ apc' = "answered"

AccessAnswer(a) ==
  /\ ares' = a
  /\ apc' = "answered"
  /\ UNCHANGED <<auser, aran>>

DevModes == {Undefined, <<"true">>, <<"false">>}
Secrets == {Undefined, << >>, <<"secret">>}
Settings == {Undefined, <<"set">>}
AuthEnvs == [devMode : DevModes, gatewayToken : Secrets,
             teamDomain : Settings, aud : Settings]
AuthOpts == {[type |-> "json", redirectOnMissing |-> FALSE],
             [type |-> "html", redirectOnMissing |-> FALSE],
             [type |-> "html", redirectOnMissing |-> TRUE]}
AuthReqs == [query : {Null, << >>, <<"secret">>},
             xGatewayToken : {Undefined, <<"secret">>, <<"guess">>},
             authorization : {Undefined, <<"Bearer", "secret">>, <<"secret">>,
                              <<"Bearer", "guess">>},
             jwtHeader : {Undefined, <<"signed">>, <<"forged">>},
             jwtCookie : {Undefined, <<"signed">>}]

\* part_000:383-442  a request reaches the middleware, which runs to its
\* first await: the handler, an answer of its own, or verifyAccessJWT
AccessRequest ==
  /\ apc = "idle"
  /\ \E req \in AuthReqs :
       /\ areq' = req
       /\ IF IsDevMode(aenv) THEN AccessNext("dev")
          ELSE IF HasValidGatewayToken(aenv, req) THEN AccessNext("cli")
          ELSE IF ~AccessConfigured(aenv) THEN AccessAnswer("500")
          ELSE IF ~Present(ExtractJWT(req))
            THEN AccessAnswer(MissingJWTAnswer(aopt))
          ELSE apc' = "verify" /\ UNCHANGED <<auser, aran, ares>>
  /\ UNCHANGED <<aenv, aopt, statVars, devVars, gwVars, syncVars,
                 waitVars, storVars>>

\* part_000:445-468  verifyAccessJWT returns or throws
AccessVerify ==
  /\ apc = "verify"
  /\ \E ok \in VerifyOutcomes(ExtractJWT(areq)) :
       IF ok THEN AccessNext("jwt") ELSE AccessAnswer("401")
  /\ UNCHANGED <<aenv, aopt, areq, statVars, devVars, gwVars, syncVars,
                 waitVars, storVars>>

\* the answer has been sent
AccessDone ==
  /\ apc = "answered"
  /\ areq' = NoAuthReq
  /\ apc' = "idle"
  /\ auser' = "none"
  /\ aran' = 0
  /\ ares' = "none"
  /\ UNCHANGED <<aenv, aopt, statVars, devVars, gwVars, syncVars,
                 waitVars, storVars>>

(***************************************************************************)
(* Specification of the access middleware                                  *)
(***************************************************************************)
InitAuth ==
  /\ creds = [key |-> FALSE, secret |-> FALSE, account |-> FALSE]
  /\ srcFile = FALSE
  /\ InitStore
  /\ InitGw
  /\ InitStorage
  /\ InitWait
  /\ InitStatus
  /\ InitDevices
  /\ pendingDev = {}
  /\ InitAccess
  /\ aenv \in AuthEnvs
  /\ aopt \in AuthOpts

NextAuth ==
  \/ AccessRequest
  \/ AccessVerify
  \/ AccessDone

SpecAuth == InitAuth /\ [][NextAuth]_vars

\* the request carries the token
Carries(req, token) ==
  \/ req.query = token
  \/ req.xGatewayToken = token
  \/ req.authorization \in {token, <<"Bearer">> \o token}

\* C16: the handler behind the middleware is invoked only for a request
\* in dev mode, or one that carries the configured gateway token (never
\* when none is configured), or one whose JWT has verified; every other
\* request is answered 401, 500 or 302 by the middleware itself and the
\* handler is not invoked.
C16_HandlerOnlyWhenAuthenticated ==
  /\ [](/\ apc = "answered" => ares \in {"next", "401", "500", "302"}
        /\ aran = (IF ares = "next" THEN 1 ELSE 0)
        /\ ares = "next" =>
             \/ aenv.devMode = <<"true">>
             \/ /\ aenv.gatewayToken = <<"secret">>
                /\ Carries(areq, <<"secret">>)
             \/ auser = "jwt")
  /\ [][(aran' > aran /\ auser' = "jwt") =>
          /\ apc = "verify"
          /\ "signed" \in {areq.jwtHeader[1], areq.jwtCookie[1]}
          /\ aenv.teamDomain = <<"set">>
          /\ aenv.aud = <<"set">>]_vars

\* a request with the gateway token has reached the handler although
\* Cloudflare Access is not configured and it has no JWT
C16_Witness ==
  /\ ares = "next"
  /\ auser = "cli"
  /\ aenv.teamDomain = Undefined
  /\ areq.jwtHeader = Undefined
  /\ areq.jwtCookie = Undefined
  /\ areq.authorization = <<"Bearer", "secret">>

(***************************************************************************)
(* waitForProcess, in sync.ts and in the routes.  Time is counted in       *)
(* tenths of a second.                                                     *)
(***************************************************************************)
\* sync.ts:17, part_000:10  500 ms
PollInterval == 5

\* sync.ts:18, part_000:16  Math.ceil(timeoutMs / pollInterval)
MaxAttempts(timeoutMs) == (timeoutMs + PollInterval - 1) \div PollInterval

\* sync.ts:20  the loop condition
SyncLoops(status, attempts, maxAttempts) ==
  status = "running" /\ attempts < maxAttempts

\* part_000:18  the loop condition
CliLoops(attempts, maxAttempts) == attempts < maxAttempts

\* the loop without its break
CliBreaks_Never(status) == FALSE

\* part_000:20  if (proc.status !== 'running') break
CliBreaks(status) == status # "running"

\* status of a process handle of the sandbox
Statuses == {"starting", "running", "completed", "failed"}

\* the loop condition is tested: the call sleeps or returns
WaitLoop(kind, status, attempts, maxAttempts) ==
  wpc' = IF \/ kind = "sync" /\ SyncLoops(status, attempts, maxAttempts)
            \/ kind = "cli" /\ CliLoops(attempts, maxAttempts)
           THEN "sleep" ELSE "returned"

\* sync.ts:16-20, part_000:15-19  waitForProcess is called and runs to its
\* first sleep, or returns
WaitCall ==
  /\ wpc = "idle"
  /\ \E kind \in {"sync", "cli"}, timeoutMs \in 0..MaxTimeout,
        status \in Statuses :
       /\ wkind' = kind
       /\ wtimeout' = timeoutMs
       /\ wstatus' = status
       /\ wmax' = MaxAttempts(timeoutMs)
       /\ WaitLoop(kind, status, 0, MaxAttempts(timeoutMs))
  /\ wattempts' = 0
  /\ wsleeps' = 0
  /\ UNCHANGED <<statVars, devVars, authVars, storVars, gwVars, syncVars>>

\* sync.ts:21-23, part_000:19-22  the timer of the sleep fires: attempts is
\* counted, or the loop of the routes breaks, and the loop goes round
WaitWake ==
  /\ wpc = "sleep"
  /\ wsleeps' = wsleeps + 1
  /\ IF wkind = "cli" /\ CliBreaks(wstatus)
       THEN wpc' = "returned" /\ UNCHANGED wattempts
       ELSE /\ wattempts' = wattempts + 1
            /\ WaitLoop(wkind, wstatus, wattempts + 1, wmax)
  /\ UNCHANGED <<wkind, wtimeout, wmax, wstatus,
                 statVars, devVars, authVars, storVars, gwVars, syncVars>>

\* the process waited for goes on by itself
ProcAdvance ==
  /\ wpc # "idle"
  /\ \/ wstatus = "starting" /\ wstatus' = "running"
     \/ wstatus = "running" /\ wstatus' \in {"completed", "failed"}
  /\ UNCHANGED <<wkind, wtimeout, wmax, wattempts, wsleeps, wpc,
                 statVars, devVars, authVars, storVars, gwVars, syncVars>>

\* the caller goes on with what has been captured
WaitDone ==
  /\ wpc = "returned"
  /\ wkind' = "none"
  /\ wtimeout' = 0
  /\ wmax' = 0
  /\ wattempts' = 0
  /\ wsleeps' = 0
  /\ wpc' = "idle"
  /\ wstatus' = "none"
  /\ UNCHANGED <<statVars, devVars, authVars, storVars, gwVars, syncVars>>

(***************************************************************************)
(* Specification of waitForProcess; a timer that has been set fires.       *)
(***************************************************************************)
NextWait ==
  \/ WaitCall
  \/ WaitWake
  \/ ProcAdvance
  \/ WaitDone

SpecWait == InitGateway /\ [][NextWait]_vars

SpecWaitFair == SpecWait /\ WF_vars(WaitWake)

\* C20: a waitForProcess call, of either file, completes at most
\* ceil(timeoutMs / 500) sleeps and then returns although the status is
\* still 'running'; it starts no further sleep once it has seen a status
\* other than 'running'; it never changes the process it waits for; and it
\* returns.
C20_WaitTerminates ==
  /\ [](wpc # "idle" =>
          /\ wmax * PollInterval >= wtimeout
          /\ (wmax - 1) * PollInterval < wtimeout
          /\ wsleeps <= wmax
          /\ wattempts <= wsleeps
          /\ wstatus \in Statuses)
  /\ [][/\ (wsleeps' > wsleeps /\ wpc' = "sleep") => wstatus = "running"
        /\ (wpc = "idle" /\ wpc' = "sleep" /\ wkind' = "sync") =>
              wstatus' = "running"
        /\ (wpc = "idle" /\ wpc' = "returned" /\ wstatus' = "running") =>
              wmax' = 0
        /\ (wsleeps' > wsleeps /\ wpc' # "sleep") =>
              (wstatus # "running" \/ wsleeps' = wmax)
        /\ (wsleeps' > wsleeps \/ (wpc = "sleep" /\ wpc' # wpc)) =>
              wstatus' = wstatus]_vars
  /\ (wpc = "sleep") ~> (wpc = "returned")

\* a call has run into its ceiling of three sleeps with the process still
\* running
C20_Witness ==
  /\ wpc = "returned"
  /\ wstatus = "running"
  /\ wtimeout = 11
  /\ wsleeps = 3

-----------------------------------------------------------------------------
\* GET /status is read-only

\* a step of the health request: the lookup, the wait for the port, or the
\* sending of the answer
StatusStep == hpc' # hpc

\* C21  Whatever a health request finds - no backend, a backend that
\* answers its port, one that does not, or a failing lookup - none of its
\* steps changes the set of backend processes, the process that holds the
\* port, the count of processes ever launched, a proxy's or the restart
\* route's progress, the mount, the marker, the local marker file or the
\* backup.
C21_HealthReadOnly ==
  [][StatusStep =>
       /\ gwAlive' = gwAlive
       /\ gwPort' = gwPort
       /\ nextPid' = nextPid
       /\ ens' = ens
       /\ pstate' = pstate
       /\ rpc' = rpc
       /\ rsteps' = rsteps
       /\ mounted' = mounted
       /\ marker' = marker
       /\ scratch' = scratch
       /\ durable' = durable]_vars

\* a health request has answered not_running in a sandbox where no backend
\* was ever launched
C21_Witness ==
  /\ hpc = "responded"
  /\ hresp = StatusNotRunning
  /\ gwAlive = {}
  /\ nextPid = 1

-----------------------------------------------------------------------------
(***************************************************************************)
(* GET /storage: the storage status and the time of the last sync.         *)
(***************************************************************************)

\* part_000:216-220
HasCredentials(env) == env.key /\ env.secret /\ env.account

\* part_000:223-226  the names of the credentials that are not set, in the
\* order of the three tests
Missing(env) ==
  (IF env.key THEN << >> ELSE <<"R2_ACCESS_KEY_ID">>)
    \o (IF env.secret THEN << >> ELSE <<"R2_SECRET_ACCESS_KEY">>)
    \o (IF env.account THEN << >> ELSE <<"CF_ACCOUNT_ID">>)

\* part_000:251  missing.length > 0 ? missing : undefined
MissingField(missing) == IF Len(missing) > 0 THEN missing ELSE Undefined

\* part_000:228  lastSync: string | null = null
NullText == [kind |-> "null", t |-> 0, nl |-> FALSE]

\* logs.stdout when the process has none
NoStdout == [kind |-> "undefined", t |-> 0, nl |-> FALSE]

\* part_000:237  stdout of `cat file 2>/dev/null || echo ""`: the content,
\* and the empty line of echo when the file does not exist
CatOrEcho(file) == IF file.kind = "nofile" THEN Blank ELSE file

\* part_000:240  logs.stdout?.trim()
TrimStdout(stdout) == IF stdout = NoStdout THEN NoStdout ELSE Trim(stdout)

\* lastSync that is the text read even when that text is empty
StorageLastSync_Raw(timestamp) ==
  IF timestamp = NoStdout THEN NullText ELSE timestamp

\* part_000:228, 241-243  if (timestamp && timestamp !== '') lastSync = timestamp
StorageLastSync(timestamp) ==
  IF timestamp # NoStdout /\ Truthy(timestamp) THEN timestamp ELSE NullText

\* part_000:253-255
StorageMessage(configured) ==
  IF configured THEN "R2 storage is configured" ELSE "R2 storage is not configured"

\* part_000:249-256
StorageAnswer(env, lastSync) ==
  [configured |-> HasCredentials(env),
   missing    |-> MissingField(Missing(env)),
   lastSync   |-> lastSync,
   message    |-> StorageMessage(HasCredentials(env))]

\* part_000:214-231, 249-256  the request arrives: without the credentials
\* the answer is built at once
StorageBegin ==
  /\ stpc = "idle"
  /\ IF HasCredentials(creds)
       THEN stpc' = "mount" /\ UNCHANGED stresp
       ELSE stpc' = "responded" /\ stresp' = StorageAnswer(creds, NullText)
  /\ UNCHANGED <<stmount, ststeps, ststdout, syncVars, gwVars,
                 statVars, devVars, authVars, waitVars>>

\* part_000:234  await mountR2Storage(sandbox, c.env): the value it returns
\* is not looked at
StorageMount ==
  /\ stpc = "mount"
  /\ \E ok \in MountOutcomes :
       /\ mounted' = ok
       /\ stmount' = IF ok THEN "ok" ELSE "failed"
  /\ ststeps' = Append(ststeps, "mount")
  /\ stpc' = "read"
  /\ UNCHANGED <<ststdout, stresp,
                 lastRead, creds, srcFile, durable, marker, scratch, now, spc,
                 mirror, result, resp, steps, srcSeen, cleanSince,
                 gwVars, statVars, devVars, authVars, waitVars>>

\* part_000:237-246, 249-256  startProcess throws; or the cat process is
\* started and getLogs throws, or the process has no stdout, or the 5 s wait
\* ends before it has printed, or it has printed the file at the mount path.
\* The catch block is empty, so every throw leaves lastSync null.
StorageRead ==
  /\ stpc = "read"
  /\ \E o \in {"startThrow", "logsThrow", "noStdout", "timeout", "done"} :
       /\ ststeps' = IF o = "startThrow" THEN ststeps ELSE Append(ststeps, "cat")
       /\ IF o \in {"startThrow", "logsThrow"}
            THEN /\ UNCHANGED ststdout
                 /\ stresp' = StorageAnswer(creds, NullText)
            ELSE LET stdout == IF o = "done" THEN CatOrEcho(MarkerSeen)
                               ELSE IF o = "timeout" THEN Empty
                               ELSE NoStdout
                     timestamp == TrimStdout(stdout)
                 IN /\ ststdout' = stdout
                    /\ stresp' = StorageAnswer(creds, StorageLastSync(timestamp))
  /\ stpc' = "responded"
  /\ UNCHANGED <<stmount, syncVars, gwVars,
                 statVars, devVars, authVars, waitVars>>

\* the answer has been sent
StorageDone ==
  /\ stpc = "responded"
  /\ stpc' = "idle"
  /\ stmount' = "none"
  /\ ststeps' = << >>
  /\ ststdout' = Unread
  /\ stresp' = NoStorageResp
  /\ UNCHANGED <<syncVars, gwVars, statVars, devVars, authVars, waitVars>>

\* Any setting of the three credentials and any marker in the bucket.  With
\* the credentials set the sandbox may hold a file at the mount path on its
\* own disk: the one `date` wrote when the mirror ran after a restart had
\* taken the mount away (MirrorDate with mounted = FALSE).
InitStorageStatus ==
  /\ creds \in Envs
  /\ srcFile = FALSE
  /\ mounted = FALSE
  /\ durable = "none"
  /\ marker \in MarkerFiles
  /\ scratch \in (IF IsConfigured(creds) THEN {NoFile, DateISeconds(1)}
                                          ELSE {NoFile})
  /\ now = 1
  /\ spc = [i \in Syncs |-> "idle"]
  /\ mirror = [i \in Syncs |-> NoProc]
  /\ result = [i \in Syncs |-> NoResult]
  /\ resp = [i \in Syncs |-> NoResp]
  /\ steps = [i \in Syncs |-> << >>]
  /\ srcSeen = [i \in Syncs |-> "mixed"]
  /\ cleanSince = [i \in Syncs |-> 0]
  /\ lastRead = [i \in Syncs |-> Unread]
  /\ InitGw
  /\ InitRest

NextStorage ==
  \/ StorageBegin
  \/ StorageMount
  \/ StorageRead
  \/ StorageDone
  \/ SandboxRestart

SpecStorage == InitStorageStatus /\ [][NextStorage]_vars

\* the credentials of the environment that are set
CredentialsSet == {n \in {"key", "secret", "account"} : creds[n]}

\* the answer agrees with the environment: configured exactly with all three
\* credentials, missing left out exactly then and otherwise one name per
\* credential that is not set
AnswerMatchesEnv ==
  /\ stresp.configured <=> (CredentialsSet = {"key", "secret", "account"})
  /\ stresp.configured <=> (stresp.missing = Undefined)
  /\ ~stresp.configured =>
       /\ Len(stresp.missing) = 3 - Cardinality(CredentialsSet)
       /\ (~creds.key) <=> (\E k \in DOMAIN stresp.missing :
                               stresp.missing[k] = "R2_ACCESS_KEY_ID")
       /\ (~creds.secret) <=> (\E k \in DOMAIN stresp.missing :
                                  stresp.missing[k] = "R2_SECRET_ACCESS_KEY")
       /\ (~creds.account) <=> (\E k \in DOMAIN stresp.missing :
                                   stresp.missing[k] = "CF_ACCOUNT_ID")

\* lastSync of the answer is the text the cat process printed, without the
\* white space around it, when that leaves any text, and null otherwise
LastSyncIsTrimmedOutput ==
  IF ststdout.kind \in {"iso", "junk", "datejunk"}
    THEN stresp.lastSync = [ststdout EXCEPT !.nl = FALSE]
    ELSE stresp.lastSync = NullText

-----------------------------------------------------------------------------
\* POST /devices/approve-all: which approve commands are started

\* the step on which the bulk route gets the output of the list command
BulkListStep == dkind = "all" /\ dpc = "ensuring" /\ dpc' # "ensuring"

\* the text from the first '{' to the last '}' is an object without a
\* pending list
SpanIsBareObject(s) ==
  \E i \in 1..(Len(s) - 1) :
     /\ s[i] = "{" /\ s[i + 1] = "}"
     /\ \A k \in 1..(i - 1) : s[k] # "{"
     /\ \A k \in (i + 2)..Len(s) : s[k] # "}"

\* the sequence s lists the set of devices D, each once and in rising order
ListsInOrder(s, D) ==
  /\ Len(s) = Cardinality(D)
  /\ \A k \in 1..Len(s) : s[k] \in D
  /\ \A j, k \in 1..Len(s) : j < k => s[j] < s[k]

\* C23  The bulk route passes approve commands to startProcess only for
\* the devices of the pending list it has read, in the order of that list,
\* the next one only when the one before has its result, and by the time it
\* answers with results once for every device of the list.  The list it
\* works through is the decoded output of the list command: the devices
\* pending at that moment.  An output whose braces do not decode is answered
\* with an error of status 500; an output without braces, or one whose list
\* is empty, with the no-pending-devices answer; and in both cases, as with
\* every error answer, no approve command has been started.
C23_BulkStartsOnePerPending ==
  /\ [](dkind = "all" =>
          /\ Len(dstarted) = Len(dresults)
          /\ Len(dstarted) <= Len(dpending)
          /\ \A k \in 1..Len(dstarted) : dstarted[k] = dpending[k]
          /\ dpc \in {"idle", "ensuring"} => dstarted = << >>
          /\ dpc = "responded" =>
               IF dresp.kind = "bulk" /\ dresp # BulkNothing
                 THEN dstarted = dpending /\ Len(dpending) > 0
                 ELSE dstarted = << >>)
  /\ [][BulkListStep =>
          /\ dstarted' = << >>
          /\ (HasSpan(OrEmpty(dout')) /\ ~SpanDecodes(OrEmpty(dout'))) =>
               (dpc' = "responded" /\ dresp'.kind = "error"
                /\ dresp'.status = 500)
          /\ (dpc' = "responded" /\ dresp'.kind # "error") =>
               /\ dresp' = BulkNothing
               /\ \/ ~HasSpan(OrEmpty(dout'))
                  \/ SpanIsBareObject(OrEmpty(dout'))
                  \/ pendingDev = {}
          /\ dpc' = "items" =>
               /\ SpanDecodes(OrEmpty(dout'))
               /\ dpending' # << >>
               /\ ListsInOrder(dpending', pendingDev)]_vars

\* the bulk route has answered after starting the approve commands of two
\* pending devices, the first before the second
C23_Witness ==
  /\ dkind = "all"
  /\ dpc = "responded"
  /\ dpending = <<1, 2>>
  /\ dstarted = <<1, 2>>
  /\ dresp.kind = "bulk"

=============================================================================
